---- MODULE Spec2Model ----
(***************************************************************************)
(* A model of the subdomain enumerator: the hostname normalizer and        *)
(* dedupe generator (core/utils.py), the CNAME-following name resolver     *)
(* and the bulk resolver (core/resolver.py), the streaming bruteforce      *)
(* engine (core/bruteforce.py), the passive collector (core/collector.py), *)
(* the nameserver choice (core/resolver.py) and main with its wildcard     *)
(* filter (cli.py).                                                        *)
(*                                                                         *)
(* Strings are sequences of one-character strings, so that strip, lower    *)
(* and the trailing-dot removal are computed as the code computes them.    *)
(* Every component has its own variables and its own specification; the    *)
(* variables of the other components stay at their idle values.            *)
(***************************************************************************)
EXTENDS Integers, Sequences, FiniteSets, TLC

VARIABLES
    \* normalize applied twice (core/utils.py)
    n_pc, n_in, n_once, n_twice,
    \* dedupe generator (core/utils.py)
    d_pc, d_input, seen, d_out,
    \* bruteforce_stream generator and its thread pool (core/bruteforce.py)
    b_pc, domain, max_pending, concurrency, skip_set, skip_names, processed,
    formed, futures, pending_futures, new_pending, scan_pos, yielded, collected,
    \* bulk_resolve (core/resolver.py)
    k_pc, names, k_concurrency, k_futures, k_taken, results,
    \* resolve_name_any (core/resolver.py)
    r_pc, zone, max_depth, r_results, r_seen, stack, cname_queries, deduped,
    r_steps,
    \* wildcard detection and the final filter of main (cli.py)
    f_pc, tries, probes, has_wildcard, wildcard_ips, res_map, f_pos,
    f_results,
    \* crt_sh_collect (core/collector.py)
    c_pc, c_domain, attempt, last_exc, c_trace, data, c_pos, hosts, c_ret,
    \* main (cli.py): the phases of one run and its thread pool
    m_pc, m_concurrency, m_collected, m_snapshot, m_tasks, m_taken, m_names,
    m_has, m_wips, m_res_map, m_results, m_log, m_exit,
    \* set_nameservers and _get_resolver (core/resolver.py)
    g_pc, GLOBAL_NAMESERVERS, g_arg, g_override, g_nameservers

normVars    == <<n_pc, n_in, n_once, n_twice>>
dedupeVars  == <<d_pc, d_input, seen, d_out>>
bruteVars   == <<b_pc, domain, max_pending, concurrency, skip_set, skip_names,
                 processed, formed, futures, pending_futures, new_pending, scan_pos,
                 yielded, collected>>
bulkVars    == <<k_pc, names, k_concurrency, k_futures, k_taken, results>>
resolveVars == <<r_pc, zone, max_depth, r_results, r_seen, stack,
                 cname_queries, deduped, r_steps>>
filterVars  == <<f_pc, tries, probes, has_wildcard, wildcard_ips, res_map,
                 f_pos, f_results>>
collectVars == <<c_pc, c_domain, attempt, last_exc, c_trace, data, c_pos, hosts,
                 c_ret>>
mainVars    == <<m_pc, m_concurrency, m_collected, m_snapshot, m_tasks, m_taken,
                 m_names, m_has, m_wips, m_res_map, m_results, m_log, m_exit>>
nsVars      == <<g_pc, GLOBAL_NAMESERVERS, g_arg, g_override, g_nameservers>>
vars == <<normVars, dedupeVars, bruteVars, bulkVars, resolveVars, filterVars,
         collectVars, mainVars, nsVars>>

\* what a step of one component leaves alone
NormFrame ==
    UNCHANGED <<dedupeVars, bruteVars, bulkVars, resolveVars, filterVars,
                collectVars, mainVars, nsVars>>
DedupeFrame ==
    UNCHANGED <<normVars, bruteVars, bulkVars, resolveVars, filterVars,
                collectVars, mainVars, nsVars>>
BruteFrame ==
    UNCHANGED <<normVars, dedupeVars, bulkVars, resolveVars, filterVars,
                collectVars, mainVars, nsVars>>
BulkFrame ==
    UNCHANGED <<normVars, dedupeVars, bruteVars, resolveVars, filterVars,
                collectVars, mainVars, nsVars>>
ResolveFrame ==
    UNCHANGED <<normVars, dedupeVars, bruteVars, bulkVars, filterVars,
                collectVars, mainVars, nsVars>>
FilterFrame ==
    UNCHANGED <<normVars, dedupeVars, bruteVars, bulkVars, resolveVars,
                collectVars, mainVars, nsVars>>
CollectFrame ==
    UNCHANGED <<normVars, dedupeVars, bruteVars, bulkVars, resolveVars,
                filterVars, mainVars, nsVars>>
MainFrame ==
    UNCHANGED <<normVars, dedupeVars, bruteVars, bulkVars, resolveVars,
                filterVars, collectVars, nsVars>>
NsFrame ==
    UNCHANGED <<normVars, dedupeVars, bruteVars, bulkVars, resolveVars,
                filterVars, collectVars, mainVars>>

(***************************************************************************)
(* Bounds of the model.                                                    *)
(***************************************************************************)
MaxStrLen == 3      \* longest input string of normalize and dedupe
MaxItems == 2       \* longest input sequence of dedupe
MaxWords == 3       \* most wordlist lines read by bruteforce_stream
MaxTasks == 2       \* most candidates the wordlist makes the stream submit
MaxPendingBound == 2 \* largest max_pending tried
MaxNames == 3       \* longest name list given to bulk_resolve
MaxDepthBound == 2  \* largest max_depth tried
MaxResolved == 2    \* most entries of the filtered resolution map

(***************************************************************************)
(* Strings.                                                                *)
(***************************************************************************)
Chars == {"a", "A", ".", " "}

StringsUpTo(n) == UNION {[1..k -> Chars] : k \in 0..n}

SeqsUpTo(S, n) == UNION {[1..k -> S] : k \in 0..n}

Range(s) == {s[i] : i \in DOMAIN s}

\* str.strip(): whitespace removed at both ends
RECURSIVE LStrip(_)
LStrip(s) ==
    IF s # <<>> /\ Head(s) = " " THEN LStrip(Tail(s)) ELSE s

RECURSIVE RStrip(_)
RStrip(s) ==
    IF s # <<>> /\ s[Len(s)] = " " THEN RStrip(SubSeq(s, 1, Len(s) - 1)) ELSE s

Strip(s) == RStrip(LStrip(s))

\* str.lower()
LowerChar(c) ==
    IF c = "A" THEN "a" ELSE IF c = "B" THEN "b" ELSE IF c = "D" THEN "d" ELSE c

Lower(s) == [i \in 1..Len(s) |-> LowerChar(s[i])]

\* str.rstrip('.'): every trailing dot removed
RECURSIVE RStripDots(_)
RStripDots(s) ==
    IF s # <<>> /\ s[Len(s)] = "."
    THEN RStripDots(SubSeq(s, 1, Len(s) - 1))
    ELSE s

(***************************************************************************)
(* normalize (core/utils.py): strip, lower, then ONE trailing dot removed. *)
(***************************************************************************)
DropTrailingDot(t) ==
    IF t # <<>> /\ t[Len(t)] = "." THEN SubSeq(t, 1, Len(t) - 1) ELSE t

normalize(name) ==
    IF name = <<>> THEN name ELSE DropTrailingDot(Lower(Strip(name)))

NormIdle ==
    /\ n_pc = "idle" /\ n_in = <<>> /\ n_once = <<>> /\ n_twice = <<>>

InitNormalize ==
    /\ n_pc = "in"
    /\ n_in \in StringsUpTo(MaxStrLen)
    /\ n_once = <<>>
    /\ n_twice = <<>>

NormalizeOnce ==
    /\ n_pc = "in"
    /\ n_once' = normalize(n_in)
    /\ n_pc' = "once"
    /\ UNCHANGED <<n_in, n_twice>>
    /\ NormFrame

NormalizeTwice ==
    /\ n_pc = "once"
    /\ n_twice' = normalize(n_once)
    /\ n_pc' = "twice"
    /\ UNCHANGED <<n_in, n_once>>
    /\ NormFrame

(***************************************************************************)
(* dedupe (core/utils.py): a generator over an iterable; one step per item.*)
(***************************************************************************)
DedupeIdle ==
    /\ d_pc = "idle" /\ d_input = <<>> /\ seen = {} /\ d_out = <<>>

InitDedupe ==
    /\ d_pc = "iter"
    /\ d_input = <<>>
    /\ seen = {}
    /\ d_out = <<>>

\* one pass of the for loop over `item`
dedupe(item) ==
    LET n == normalize(item) IN
    /\ d_pc = "iter"
    /\ Len(d_input) < MaxItems
    /\ d_input' = Append(d_input, item)
    /\ IF item # <<>> /\ n # <<>> /\ n \notin seen
       THEN /\ seen' = seen \cup {n}
            /\ d_out' = Append(d_out, n)
       ELSE UNCHANGED <<seen, d_out>>
    /\ UNCHANGED d_pc
    /\ DedupeFrame

\* the iterable is exhausted
DedupeEnd ==
    /\ d_pc = "iter"
    /\ d_pc' = "done"
    /\ UNCHANGED <<d_input, seen, d_out>>
    /\ DedupeFrame

(***************************************************************************)
(* ThreadPoolExecutor: a submitted task is queued, is started by a free    *)
(* worker in submission order, and finishes with a result or an exception. *)
(***************************************************************************)
\* what resolve_name_any gives a task: records, no record, or an exception
Outcomes(addresses) ==
    { [raised |-> FALSE, recs |-> <<a>>] : a \in addresses }
    \cup { [raised |-> FALSE, recs |-> <<>>], [raised |-> TRUE, recs |-> <<>>] }

Running(fs) == {i \in DOMAIN fs : fs[i].status = "running"}

\* a worker is free and i is the oldest queued task
CanStart(fs, workers, i) ==
    /\ i \in DOMAIN fs
    /\ fs[i].status = "queued"
    /\ \A j \in 1..(i - 1) : fs[j].status # "queued"
    /\ Cardinality(Running(fs)) < workers

Started(fs, i) == [fs EXCEPT ![i].status = "running"]

Finished(fs, i, o) ==
    [fs EXCEPT ![i].status = "done", ![i].raised = o.raised, ![i].recs = o.recs]

\* Future.done()
Done(f) == f.status = "done"

\* try: res = fut.result()  except Exception: res = []
ResultOrEmpty(f) == IF f.raised THEN <<>> ELSE f.recs

(***************************************************************************)
(* bruteforce_stream (core/bruteforce.py), consumed by main (cli.py).      *)
(***************************************************************************)
WordLines == { <<>>, <<"#", "a">>, <<"a">>, <<"A", " ">>, <<"b">> }

Domains == { <<"d">> }

\* the hostnames known before the run: canonical (trimmed, lowercased, no
\* trailing dot), as crt_sh_collect returns them
SkipUniverse == { <<"a", ".", "d">>, <<"b", ".", "d">> }

BruteIdle ==
    /\ b_pc = "idle" /\ domain = <<>> /\ max_pending = 0 /\ concurrency = 0
    /\ skip_set = {} /\ skip_names = {} /\ processed = 0
    /\ formed = <<>> /\ futures = <<>>
    /\ pending_futures = <<>> /\ new_pending = <<>> /\ scan_pos = 0
    /\ yielded = <<>> /\ collected = {}

InitBrute ==
    /\ b_pc = "start"
    /\ domain \in Domains
    /\ max_pending \in 1..MaxPendingBound
    /\ concurrency \in 1..2
    /\ skip_set \in SUBSET SkipUniverse
    /\ skip_names = {}
    /\ processed = 0
    /\ formed = <<>>
    /\ futures = <<>>
    /\ pending_futures = <<>>
    /\ new_pending = <<>>
    /\ scan_pos = 0
    /\ yielded = <<>>
    /\ collected = skip_set

\* line 35: skip_names = set(normalize(s) for s in skip_set if s)
SkipNames(S) == {normalize(s) : s \in {x \in S : x # <<>>}}

\* line 45: blank lines and comments
SkippedLine(w) == IF w = <<>> THEN TRUE ELSE Head(w) = "#"

\* line 47: candidate = f"{w}.{domain}"
Candidate(w, dom) == w \o <<".">> \o dom

\* line 48: cand_norm = normalize(candidate)
SkipKeyRaw(candidate) == candidate

SkipKey(candidate) == normalize(candidate)

\* line 49: cand_norm in skip_names
InSkipLive(cand_norm, skipped) == cand_norm \in collected

InSkip(cand_norm, skipped) == cand_norm \in skipped

\* line 56: len(pending_futures) >= max_pending
ReachedMax(pending, maxp) == Len(pending) >= maxp

\* line 67: new_pending.append((fut, cand))
RetainDropped(kept, e) == kept

Retain(kept, e) == Append(kept, e)

\* lines 64-65 and 79-80: if res: yield normalize(cand)
YieldsAny(f) == << normalize(f.cand) >>

Yields(f) ==
    IF ResultOrEmpty(f) # <<>> THEN << normalize(f.cand) >> ELSE <<>>

\* lines 96-107 of cli.py: the consumer adds what the stream yields
Consume(ys) == collected \cup Range(ys)

\* lines 30-35: the first next() on the generator
BruteBegin ==
    /\ b_pc = "start"
    /\ \/ \* the wordlist is missing: warn and return
          /\ b_pc' = "done"
          /\ UNCHANGED skip_names
       \/ /\ b_pc' = "read"
          /\ skip_names' = SkipNames(skip_set)
    /\ UNCHANGED <<domain, max_pending, concurrency, skip_set, processed,
                   formed, futures,
                   pending_futures, new_pending, scan_pos, yielded, collected>>
    /\ BruteFrame

\* lines 42-56: one pass of `for raw in fh`, up to the threshold test
BruteReadLine(raw) ==
    LET w == Strip(raw)
        candidate == Candidate(w, domain)
        cand_norm == SkipKey(candidate)
        fut == [cand |-> candidate, raw |-> raw,
                status |-> "queued", raised |-> FALSE, recs |-> <<>>,
                taken |-> 0]
        appended == Append(pending_futures, Len(futures) + 1)
    IN
    /\ b_pc = "read"
    /\ processed < MaxWords
    /\ IF SkippedLine(w) \/ InSkip(cand_norm, skip_names)
       THEN TRUE
       ELSE Len(futures) < MaxTasks
    /\ processed' = processed + 1
    /\ formed' = IF SkippedLine(w) THEN formed ELSE Append(formed, candidate)
    /\ IF SkippedLine(w) \/ InSkip(cand_norm, skip_names)
       THEN UNCHANGED <<futures, pending_futures, b_pc, scan_pos>>
       ELSE /\ futures' = Append(futures, fut)
            /\ pending_futures' = appended
            /\ IF ReachedMax(appended, max_pending)
               THEN b_pc' = "scan" /\ scan_pos' = 1
               ELSE UNCHANGED <<b_pc, scan_pos>>
    /\ UNCHANGED <<domain, max_pending, concurrency, skip_set, skip_names,
                   new_pending, yielded, collected>>
    /\ BruteFrame

\* lines 58-68: one pass of the scan loop; the last pass replaces the list
BruteScanStep ==
    LET e == pending_futures[scan_pos]
        f == futures[e]
        kept == IF Done(f) THEN new_pending ELSE Retain(new_pending, e)
        out == IF Done(f) THEN Yields(f) ELSE <<>>
    IN
    /\ b_pc = "scan"
    /\ futures' = IF Done(f) THEN [futures EXCEPT ![e].taken = @ + 1]
                  ELSE futures
    /\ yielded' = yielded \o [i \in 1..Len(out) |-> [name |-> out[i], task |-> e]]
    /\ collected' = Consume(out)
    /\ IF scan_pos = Len(pending_futures)
       THEN /\ pending_futures' = kept
            /\ new_pending' = <<>>
            /\ scan_pos' = 0
            /\ b_pc' = "read"
       ELSE /\ new_pending' = kept
            /\ scan_pos' = scan_pos + 1
            /\ UNCHANGED <<pending_futures, b_pc>>
    /\ UNCHANGED <<domain, max_pending, concurrency, skip_set, skip_names,
                   processed, formed>>
    /\ BruteFrame

\* the wordlist is exhausted: the drain loop of lines 74-80 begins
BruteEndOfFile ==
    /\ b_pc = "read"
    /\ IF pending_futures = <<>>
       THEN b_pc' = "done" /\ UNCHANGED scan_pos
       ELSE b_pc' = "drain" /\ scan_pos' = 1
    /\ UNCHANGED <<domain, max_pending, concurrency, skip_set, skip_names,
                   processed, formed, futures, pending_futures, new_pending, yielded,
                   collected>>
    /\ BruteFrame

\* lines 74-80: fut.result() blocks until the task is done
BruteDrainStep ==
    LET e == pending_futures[scan_pos]
        f == futures[e]
        out == Yields(f)
    IN
    /\ b_pc = "drain"
    /\ Done(f)
    /\ futures' = [futures EXCEPT ![e].taken = @ + 1]
    /\ yielded' = yielded \o [i \in 1..Len(out) |-> [name |-> out[i], task |-> e]]
    /\ collected' = Consume(out)
    /\ IF scan_pos = Len(pending_futures)
       THEN b_pc' = "done" /\ scan_pos' = 0
       ELSE scan_pos' = scan_pos + 1 /\ UNCHANGED b_pc
    /\ UNCHANGED <<domain, max_pending, concurrency, skip_set, skip_names,
                   processed, formed, pending_futures, new_pending>>
    /\ BruteFrame

\* a free worker of the stream's pool takes the oldest queued task
BruteWorkerStart(i) ==
    /\ CanStart(futures, concurrency, i)
    /\ futures' = Started(futures, i)
    /\ UNCHANGED <<b_pc, domain, max_pending, concurrency, skip_set,
                   skip_names, processed, formed,
                   pending_futures, new_pending, scan_pos,
                   yielded, collected>>
    /\ BruteFrame

\* resolve_name_any returns, or raises, in its worker
BruteWorkerFinish(i, o) ==
    /\ i \in DOMAIN futures
    /\ futures[i].status = "running"
    /\ futures' = Finished(futures, i, o)
    /\ UNCHANGED <<b_pc, domain, max_pending, concurrency, skip_set,
                   skip_names, processed, formed,
                   pending_futures, new_pending, scan_pos,
                   yielded, collected>>
    /\ BruteFrame

(***************************************************************************)
(* bulk_resolve (core/resolver.py): every name is submitted to a pool, the *)
(* main thread takes the futures as they complete and fills the mapping.   *)
(***************************************************************************)
HostIds == {"p", "q"}

BulkIdle ==
    /\ k_pc = "idle" /\ names = <<>> /\ k_concurrency = 0 /\ k_futures = <<>>
    /\ k_taken = {} /\ results = <<>>

InitBulk ==
    /\ k_pc = "start"
    /\ names \in SeqsUpTo(HostIds, MaxNames)
    /\ k_concurrency \in 1..2
    /\ k_futures = <<>>
    /\ k_taken = {}
    /\ results = <<>>

\* lines 113-117: ips = fut.result(), or [] when the task raised
BulkResultLeaky(f) == IF f.raised THEN <<"error">> ELSE f.recs

BulkResult(f) == IF f.raised THEN <<>> ELSE f.recs

\* line 118: results[n] = ips
StoredUnlessRaised(res, n, f) ==
    IF f.raised THEN res
    ELSE [m \in DOMAIN res \cup {n} |-> IF m = n THEN BulkResult(f) ELSE res[m]]

Stored(res, n, f) ==
    [m \in DOMAIN res \cup {n} |-> IF m = n THEN BulkResult(f) ELSE res[m]]

\* line 110: one future per element of names, all submitted
BulkSubmit ==
    /\ k_pc = "start"
    /\ k_futures' = [i \in 1..Len(names) |->
                        [status |-> "queued", raised |-> FALSE, recs |-> <<>>]]
    /\ k_pc' = "collect"
    /\ UNCHANGED <<names, k_concurrency, k_taken, results>>
    /\ BulkFrame

\* lines 111-118: as_completed hands over a finished future not yet taken
BulkCollect(i) ==
    /\ k_pc = "collect"
    /\ i \in DOMAIN k_futures
    /\ i \notin k_taken
    /\ Done(k_futures[i])
    /\ results' = Stored(results, names[i], k_futures[i])
    /\ k_taken' = k_taken \cup {i}
    /\ UNCHANGED <<k_pc, names, k_concurrency, k_futures>>
    /\ BulkFrame

\* line 119: as_completed is exhausted, the pool is shut down
BulkReturn ==
    /\ k_pc = "collect"
    /\ k_taken = DOMAIN k_futures
    /\ k_pc' = "done"
    /\ UNCHANGED <<names, k_concurrency, k_futures, k_taken, results>>
    /\ BulkFrame

BulkWorkerStart(i) ==
    /\ CanStart(k_futures, k_concurrency, i)
    /\ k_futures' = Started(k_futures, i)
    /\ UNCHANGED <<k_pc, names, k_concurrency, k_taken, results>>
    /\ BulkFrame

BulkWorkerFinish(i, o) ==
    /\ i \in DOMAIN k_futures
    /\ k_futures[i].status = "running"
    /\ k_futures' = Finished(k_futures, i, o)
    /\ UNCHANGED <<k_pc, names, k_concurrency, k_taken, results>>
    /\ BulkFrame

(***************************************************************************)
(* resolve_name_any (core/resolver.py).  The zone gives every host name    *)
(* its CNAME targets; a host has one A and one AAAA address.  Any lookup   *)
(* may fail (NXDOMAIN, no answer, timeout, SERVFAIL): _safe_resolve then   *)
(* returns no record.  The recursion of resolve_cname is kept as a stack   *)
(* of frames.                                                              *)
(***************************************************************************)
HostNames == { <<"x">>, <<"y">>, <<"z">> }

\* the name being resolved
Name == <<"x">>

NoRepeat(s) == \A i, j \in DOMAIN s : i # j => s[i] # s[j]

\* the CNAME targets a name may have: none, one, or two (a branching chain)
TargetLists ==
    { <<>>, << <<"x">> >>, << <<"y">> >>, << <<"z">> >>,
      << <<"x">>, <<"y">> >>, << <<"x">>, <<"z">> >>, << <<"y">>, <<"z">> >> }

\* the rdata texts of an answer: a CNAME target is an absolute name, "y."
Answer(z, name, rdtype) ==
    IF rdtype = "CNAME" THEN [i \in 1..Len(z[name]) |-> z[name][i] \o <<".">>]
    ELSE IF rdtype = "A" THEN << <<"4">> \o name >>
    ELSE << <<"6">> \o name >>

\* _safe_resolve: [r.to_text().rstrip('.') for r in answers], [] on failure
safe_resolve(z, name, rdtype, fails) ==
    IF fails THEN <<>>
    ELSE LET ans == Answer(z, name, rdtype) IN
         [i \in 1..Len(ans) |-> RStripDots(ans[i])]

\* line 71: if depth >= max_depth: return
DepthReachedLate(depth, maxd) == depth > maxd

DepthReached(depth, maxd) == depth >= maxd

\* lines 94-98: for x in results: if x not in deduped: deduped.append(x),
\* which keeps the entries at their first places, in order
FirstPlaces(s) == {i \in DOMAIN s : \A j \in 1..(i - 1) : s[j] # s[i]}

KeepFirst(s) ==
    LET firsts == FirstPlaces(s) IN
    [k \in 1..Cardinality(firsts) |->
        s[CHOOSE i \in firsts : Cardinality({j \in firsts : j <= i}) = k]]

Top == stack[Len(stack)]

Pop == SubSeq(stack, 1, Len(stack) - 1)

Frame(target, depth) ==
    [target |-> target, depth |-> depth, stage |-> "enter",
     cnames |-> <<>>, idx |-> 0]

\* the pc after a frame is popped
AfterPop == IF Len(stack) = 1 THEN "dedupe" ELSE "cname"

ResolveIdle ==
    /\ r_pc = "idle" /\ zone = <<>> /\ max_depth = 0 /\ r_results = <<>>
    /\ r_seen = {} /\ stack = <<>> /\ cname_queries = {} /\ deduped = <<>>
    /\ r_steps = 0

InitResolve ==
    /\ r_pc = "A"
    /\ zone \in [HostNames -> TargetLists]
    /\ max_depth \in 0..MaxDepthBound
    /\ r_results = <<>>
    /\ r_seen = {}
    /\ stack = <<>>
    /\ cname_queries = {}
    /\ deduped = <<>>
    /\ r_steps = 0

\* lines 62-64: the A records of name
ResolveA ==
    /\ r_pc = "A"
    /\ \E fails \in BOOLEAN :
          r_results' = r_results \o safe_resolve(zone, Name, "A", fails)
    /\ r_pc' = "AAAA"
    /\ UNCHANGED <<zone, max_depth, r_seen, stack, cname_queries, deduped>>
    /\ r_steps' = r_steps + 1
    /\ ResolveFrame

\* lines 65-67 and 91: the AAAA records of name, then resolve_cname(name, 0)
ResolveAAAA ==
    /\ r_pc = "AAAA"
    /\ \E fails \in BOOLEAN :
          r_results' = r_results \o safe_resolve(zone, Name, "AAAA", fails)
    /\ stack' = << Frame(Name, 0) >>
    /\ r_pc' = "cname"
    /\ UNCHANGED <<zone, max_depth, r_seen, cname_queries, deduped>>
    /\ r_steps' = r_steps + 1
    /\ ResolveFrame

\* lines 71-73: the depth test, then the CNAME lookup of target_name
CnameEnter ==
    /\ r_pc = "cname"
    /\ Top.stage = "enter"
    /\ IF DepthReached(Top.depth, max_depth)
       THEN /\ stack' = Pop
            /\ r_pc' = AfterPop
            /\ UNCHANGED cname_queries
       ELSE /\ \E fails \in BOOLEAN :
                  stack' = [stack EXCEPT ![Len(stack)] =
                               [@ EXCEPT !.stage = "loop", !.idx = 1,
                                  !.cnames = safe_resolve(zone, Top.target,
                                                          "CNAME", fails)]]
            /\ cname_queries' = cname_queries \cup
                                  {[name |-> Top.target, depth |-> Top.depth]}
            /\ UNCHANGED r_pc
    /\ UNCHANGED <<zone, max_depth, r_results, r_seen, deduped>>
    /\ r_steps' = r_steps + 1
    /\ ResolveFrame

\* lines 74-79: the next target of the loop, recorded when it is new
CnameNext ==
    /\ r_pc = "cname"
    /\ Top.stage = "loop"
    /\ IF Top.idx > Len(Top.cnames)
       THEN /\ stack' = Pop
            /\ r_pc' = AfterPop
            /\ UNCHANGED <<r_results, r_seen>>
       ELSE LET t == RStripDots(Top.cnames[Top.idx]) IN
            IF t \in r_seen
            THEN /\ stack' = [stack EXCEPT ![Len(stack)].idx = @ + 1]
                 /\ UNCHANGED <<r_pc, r_results, r_seen>>
            ELSE /\ r_results' = Append(r_results, t)
                 /\ r_seen' = r_seen \cup {t}
                 /\ stack' = [stack EXCEPT ![Len(stack)].stage = "A"]
                 /\ UNCHANGED r_pc
    /\ UNCHANGED <<zone, max_depth, cname_queries, deduped>>
    /\ r_steps' = r_steps + 1
    /\ ResolveFrame

\* lines 81-83: the A records of the target
CnameTargetA ==
    /\ r_pc = "cname"
    /\ Top.stage = "A"
    /\ \E fails \in BOOLEAN :
          r_results' = r_results \o
              safe_resolve(zone, RStripDots(Top.cnames[Top.idx]), "A", fails)
    /\ stack' = [stack EXCEPT ![Len(stack)].stage = "AAAA"]
    /\ UNCHANGED <<r_pc, zone, max_depth, r_seen, cname_queries, deduped>>
    /\ r_steps' = r_steps + 1
    /\ ResolveFrame

\* lines 84-88: the AAAA records of the target, then resolve_cname(t, depth+1)
CnameTargetAAAA ==
    /\ r_pc = "cname"
    /\ Top.stage = "AAAA"
    /\ \E fails \in BOOLEAN :
          r_results' = r_results \o
              safe_resolve(zone, RStripDots(Top.cnames[Top.idx]), "AAAA", fails)
    /\ stack' = Append([stack EXCEPT ![Len(stack)].stage = "loop",
                                     ![Len(stack)].idx = @ + 1],
                       Frame(RStripDots(Top.cnames[Top.idx]), Top.depth + 1))
    /\ UNCHANGED <<r_pc, zone, max_depth, r_seen, cname_queries, deduped>>
    /\ r_steps' = r_steps + 1
    /\ ResolveFrame

\* lines 94-98: the deduplicated list is returned
ResolveDedupe ==
    /\ r_pc = "dedupe"
    /\ deduped' = KeepFirst(r_results)
    /\ r_pc' = "done"
    /\ UNCHANGED <<zone, max_depth, r_results, r_seen, stack, cname_queries>>
    /\ r_steps' = r_steps + 1
    /\ ResolveFrame

(***************************************************************************)
(* Wildcard detection and the final filtering step of main (cli.py         *)
(* 118-141), with detect_wildcard (core/resolver.py 121-136).              *)
(***************************************************************************)
WildcardTries == 2

Addresses == {"1", "2"}

MaxTries == 3       \* largest number of probes tried

\* what a resolution can return: no record, or distinct addresses in order
AddressLists == { <<>>, <<"1">>, <<"2">>, <<"1", "2">>, <<"2", "1">> }

ResolvedNames == {"p", "q", "r"}

\* the items of res_map: resolved names, each once, with its result list
ResolvedItems ==
    {s \in SeqsUpTo([name : ResolvedNames, ips : AddressLists], MaxResolved) :
        \A i, j \in DOMAIN s : i # j => s[i].name # s[j].name}

FilterIdle ==
    /\ f_pc = "idle" /\ tries = 0 /\ probes = <<>> /\ has_wildcard = FALSE
    /\ wildcard_ips = {} /\ res_map = <<>> /\ f_pos = 0 /\ f_results = <<>>

\* cli.py 120: detect_wildcard(domain, tries=2, ...)
InitFilter ==
    /\ f_pc = "detect"
    /\ tries = WildcardTries
    /\ probes = <<>>
    /\ has_wildcard = FALSE
    /\ wildcard_ips = {}
    /\ res_map = <<>>
    /\ f_pos = 0
    /\ f_results = <<>>

\* resolver.py 129-133: one probe of a random label, its result kept as a set
DetectProbe(ips) ==
    /\ f_pc = "detect"
    /\ Len(probes) < tries
    /\ probes' = Append(probes, Range(ips))
    /\ UNCHANGED <<f_pc, has_wildcard, wildcard_ips, res_map, f_pos, f_results>>
    /\ UNCHANGED tries
    /\ FilterFrame

\* resolver.py 134: combined = set().union(*ips_sets)
Combined(ips_sets) == UNION Range(ips_sets)

\* resolver.py 135: has = any(len(s) > 0 for s in ips_sets)
HasEvery(ips_sets) == \A k \in DOMAIN ips_sets : ips_sets[k] # {}

HasAny(ips_sets) == \E k \in DOMAIN ips_sets : ips_sets[k] # {}

\* resolver.py 134-136: combined = union of the sets, has = any is non-empty
DetectReturn ==
    /\ f_pc = "detect"
    /\ Len(probes) = tries
    /\ wildcard_ips' = Combined(probes)
    /\ has_wildcard' = HasAny(probes)
    /\ f_pc' = "resolve"
    /\ UNCHANGED <<probes, res_map, f_pos, f_results>>
    /\ UNCHANGED tries
    /\ FilterFrame

\* cli.py 122-125: detection raised
DetectFailed ==
    /\ f_pc = "detect"
    /\ wildcard_ips' = {}
    /\ has_wildcard' = FALSE
    /\ f_pc' = "resolve"
    /\ UNCHANGED <<probes, res_map, f_pos, f_results>>
    /\ UNCHANGED tries
    /\ FilterFrame

\* cli.py 128-131: bulk_resolve returned the mapping
FilterResolved(items) ==
    /\ f_pc = "resolve"
    /\ res_map' = items
    /\ f_pos' = 1
    /\ f_pc' = IF items = <<>> THEN "done" ELSE "filter"
    /\ UNCHANGED <<probes, has_wildcard, wildcard_ips, f_results>>
    /\ UNCHANGED tries
    /\ FilterFrame

\* cli.py 135: has_wildcard and wildcard_ips and set(ips).issubset(...)
WildcardHitAny(has, wips, ips) ==
    has /\ wips # {} /\ Range(ips) \cap wips # {}

WildcardHit(has, wips, ips) ==
    has /\ wips # {} /\ Range(ips) \subseteq wips

\* cli.py 132-141: one pass of the loop over res_map.items()
FilterStep ==
    LET item == res_map[f_pos] IN
    /\ f_pc = "filter"
    /\ IF item.ips # <<>> /\ ~WildcardHit(has_wildcard, wildcard_ips, item.ips)
       THEN f_results' = Append(f_results, item)
       ELSE UNCHANGED f_results
    /\ IF f_pos = Len(res_map)
       THEN f_pc' = "done" /\ UNCHANGED f_pos
       ELSE f_pos' = f_pos + 1 /\ UNCHANGED f_pc
    /\ UNCHANGED <<probes, has_wildcard, wildcard_ips, res_map>>
    /\ UNCHANGED tries
    /\ FilterFrame

(***************************************************************************)
(* crt_sh_collect (core/collector.py): the retry loop around the HTTP      *)
(* request, then the loop over the elements of the JSON array.             *)
(***************************************************************************)
RETRY_ATTEMPTS == 3

MaxLineLen == 3     \* longest line of a name_value field
MaxBodyItems == 2   \* most elements of a response array with mixed elements

\* the lines a name_value field can hold
CertLines ==
    UNION {[1..k -> {"a", "A", "d", ".", "*", "@", " "}] : k \in 0..MaxLineLen}

\* str.lstrip(chars): every leading character that is in chars is removed
RECURSIVE LStripChars(_, _)
LStripChars(s, chars) ==
    IF s # <<>> /\ Head(s) \in chars THEN LStripChars(Tail(s), chars) ELSE s

\* str.endswith(suffix)
EndsWith(s, suffix) ==
    /\ Len(suffix) <= Len(s)
    /\ SubSeq(s, Len(s) - Len(suffix) + 1, Len(s)) = suffix

\* utils.py 39-41: re.match(r'^[a-z0-9\-\.]+$', s)
is_likely_subdomain(s) ==
    /\ s # <<>>
    /\ Range(s) \subseteq {"a", "b", "d", "x", "y", "z", "0", "1", "2", "-", "."}

\* collector.py 61-69: what one line of name_value appends to hosts;
\* candidate = line.lstrip("*.").rstrip(".").lower()
LineHosts(raw, dom) ==
    LET line == Strip(raw)
        candidate == Lower(RStripDots(LStripChars(line, {"*", "."})))
    IN  IF line = <<>> THEN <<>>
        ELSE IF "@" \in Range(line) THEN <<>>
        ELSE IF EndsWith(candidate, dom) /\ is_likely_subdomain(candidate)
             THEN << normalize(candidate) >>
             ELSE <<>>

\* collector.py 60-69: the loop over nv.splitlines()
RECURSIVE NameValueHosts(_, _)
NameValueHosts(lines, dom) ==
    IF lines = <<>> THEN <<>>
    ELSE LineHosts(Head(lines), dom) \o NameValueHosts(Tail(lines), dom)

\* utils.py 24-32 as a function: the canonical forms of the non-empty items,
\* each at its first place
DedupeAll(s) ==
    LET nonEmpty(x) == x # <<>>
        canon == [i \in DOMAIN SelectSeq(s, nonEmpty) |->
                     normalize(SelectSeq(s, nonEmpty)[i])]
    IN  KeepFirst(SelectSeq(canon, nonEmpty))

\* elements of the JSON array: a value that is not an object (string,
\* number, null), an object without name_value, an object whose name_value
\* is not a string, and objects with a string name_value (its lines in nv)
MixedElements ==
    { [kind |-> "nonobj", nv |-> <<>>], [kind |-> "missing", nv |-> <<>>],
      [kind |-> "nonstr", nv |-> <<>>],
      [kind |-> "obj", nv |-> << <<"a", ".", "d">> >>],
      [kind |-> "obj",
       nv |-> << <<"*", ".", "a", ".", "d">>, <<"A", ".", "d", ".">> >>],
      [kind |-> "obj", nv |-> << <<"d">>, <<"a", "@", "d">> >>] }

\* the arrays a successful request can deliver
Bodies ==
    { << [kind |-> "obj", nv |-> <<line>>] >> : line \in CertLines }
    \cup SeqsUpTo(MixedElements, MaxBodyItems)

\* collector.py 46: _RETRY_BACKOFF_BASE ** (attempt - 1) with base 1.5, in
\* hundredths of a second
Backoff(n) == (100 * 3^(n - 1)) \div 2^(n - 1)

CollectIdle ==
    /\ c_pc = "idle" /\ c_domain = <<>> /\ attempt = 0 /\ last_exc = FALSE
    /\ c_trace = <<>> /\ data = <<>> /\ c_pos = 0 /\ hosts = <<>>
    /\ c_ret = <<>>

\* collector.py 31: range(1, _RETRY_ATTEMPTS + 1) is exhausted after attempt
LastAttemptLate(n) == n > RETRY_ATTEMPTS

LastAttempt(n) == n >= RETRY_ATTEMPTS

\* collector.py 33-35, 42-53: the request, the status check or the parse
\* raises (kind); sleep unless this was the last attempt; after the last
\* attempt last_exc is set and the call returns []
CollectAttemptFails(kind) ==
    /\ c_pc = "loop"
    /\ last_exc' = TRUE
    /\ c_trace' = c_trace
                  \o << [ev |-> "request", ok |-> FALSE, why |-> kind,
                         wait |-> 0] >>
                  \o (IF attempt < RETRY_ATTEMPTS
                      THEN << [ev |-> "sleep", ok |-> FALSE, why |-> kind,
                               wait |-> Backoff(attempt)] >>
                      ELSE <<>>)
    /\ IF LastAttempt(attempt)
       THEN c_pc' = "returned" /\ c_ret' = <<>> /\ UNCHANGED attempt
       ELSE attempt' = attempt + 1 /\ UNCHANGED <<c_pc, c_ret>>
    /\ UNCHANGED <<c_domain, data, c_pos, hosts>>
    /\ CollectFrame

\* collector.py 33-38: the body parses but is not a list: return []
CollectNonList ==
    /\ c_pc = "loop"
    /\ c_trace' = Append(c_trace, [ev |-> "request", ok |-> TRUE,
                                   why |-> "none", wait |-> 0])
    /\ c_ret' = <<>>
    /\ c_pc' = "returned"
    /\ UNCHANGED <<c_domain, attempt, last_exc, data, c_pos, hosts>>
    /\ CollectFrame

\* collector.py 33-41, 52-56: the body is a list: last_exc = None, break;
\* hosts = [] and the loop over data begins
CollectFetched(body) ==
    /\ c_pc = "loop"
    /\ c_trace' = Append(c_trace, [ev |-> "request", ok |-> TRUE,
                                   why |-> "none", wait |-> 0])
    /\ data' = body
    /\ last_exc' = FALSE
    /\ hosts' = <<>>
    /\ c_pos' = 1
    /\ c_pc' = "items"
    /\ UNCHANGED <<c_domain, attempt, c_ret>>
    /\ CollectFrame

\* collector.py 56-69: one pass of the loop over data.  A value that is not
\* an object has no get, and the AttributeError of item.get (line 57) leaves
\* crt_sh_collect; the default "" and a name_value that is not a string
\* give no lines
CollectItem ==
    LET item == data[c_pos]
        lines == IF item.kind = "obj" THEN item.nv ELSE <<>>
    IN
    /\ c_pc = "items"
    /\ c_pos <= Len(data)
    /\ IF item.kind # "nonobj"
       THEN /\ hosts' = hosts \o NameValueHosts(lines, c_domain)
            /\ c_pos' = c_pos + 1
            /\ UNCHANGED c_pc
       ELSE /\ c_pc' = "raised"
            /\ UNCHANGED <<hosts, c_pos>>
    /\ UNCHANGED <<c_domain, attempt, last_exc, c_trace, data, c_ret>>
    /\ CollectFrame

\* collector.py 70: return list(dedupe(hosts))
CollectReturn ==
    /\ c_pc = "items"
    /\ c_pos > Len(data)
    /\ c_ret' = DedupeAll(hosts)
    /\ c_pc' = "returned"
    /\ UNCHANGED <<c_domain, attempt, last_exc, c_trace, data, c_pos, hosts>>
    /\ CollectFrame

(***************************************************************************)
(* main (cli.py 57-156): one run, phase by phase.  Hostnames are the       *)
(* canonical names HostIds.  The bruteforce stream and bulk_resolve each   *)
(* work in a `with ThreadPoolExecutor` block, which waits for every        *)
(* submitted task before it is left, normally or by an exception; the two  *)
(* pools never exist together, and m_tasks holds the tasks of the latest.  *)
(***************************************************************************)
\* cli.py 115: sorted(list(utils.dedupe(collected)))
SortedNames(S) == SelectSeq(<<"p", "q">>, LAMBDA n : n \in S)

\* executor.submit(resolve_name_any, n, ...)
Task(n) == [cand |-> n, status |-> "queued", raised |-> FALSE, recs |-> <<>>]

\* ThreadPoolExecutor.__exit__: shutdown(wait=True)
PoolDrainedNoWait(tasks) == TRUE

PoolDrained(tasks) == \A i \in DOMAIN tasks : Done(tasks[i])

\* where main goes on after the except clause of a phase
AfterExceptAbort(phase) == "exit"

AfterExcept(phase) ==
    CASE phase = "passive" -> "brute"
      [] phase = "brute" -> "dedupe"
      [] phase = "wildcard" -> "bulk"
      [] phase = "bulk" -> "output"

MainIdle ==
    /\ m_pc = "idle" /\ m_concurrency = 0 /\ m_collected = {}
    /\ m_snapshot = {} /\ m_tasks = <<>> /\ m_taken = {} /\ m_names = <<>>
    /\ m_has = FALSE /\ m_wips = {} /\ m_res_map = <<>> /\ m_results = <<>>
    /\ m_log = <<>> /\ m_exit = "none"

\* cli.py 60-63, 74-79: the domain is not valid, or it is valid and the
\* wordlist download fails: sys.exit(1)
MainFatalConfig(why) ==
    /\ m_pc = "start"
    /\ m_log' = IF why = "domain"
                THEN << [phase |-> "domain", ok |-> FALSE] >>
                ELSE << [phase |-> "domain", ok |-> TRUE],
                        [phase |-> "download", ok |-> FALSE] >>
    /\ m_exit' = "1"
    /\ m_pc' = "exit"
    /\ UNCHANGED <<m_concurrency, m_collected, m_snapshot, m_tasks, m_taken,
                   m_names, m_has, m_wips, m_res_map, m_results>>
    /\ MainFrame

\* cli.py 60-79: the domain is valid, the nameservers are set (a failure is
\* only logged), and the wordlist is not downloaded or the download worked
MainConfigured ==
    /\ m_pc = "start"
    /\ m_log' = << [phase |-> "domain", ok |-> TRUE] >>
    /\ m_pc' = "passive"
    /\ UNCHANGED <<m_concurrency, m_collected, m_snapshot, m_tasks, m_taken,
                   m_names, m_has, m_wips, m_res_map, m_results, m_exit>>
    /\ MainFrame

\* cli.py 82-87: crt_sh_collect returned; collected.update(passive)
MainPassive(found) ==
    /\ m_pc = "passive"
    /\ m_collected' = m_collected \cup found
    /\ m_log' = Append(m_log, [phase |-> "passive", ok |-> TRUE])
    /\ m_pc' = "brute"
    /\ UNCHANGED <<m_concurrency, m_snapshot, m_tasks, m_taken, m_names,
                   m_has, m_wips, m_res_map, m_results, m_exit>>
    /\ MainFrame

\* cli.py 88-89: crt_sh_collect raised
MainPassiveFails ==
    /\ m_pc = "passive"
    /\ m_log' = Append(m_log, [phase |-> "passive", ok |-> FALSE])
    /\ m_pc' = AfterExcept("passive")
    /\ UNCHANGED <<m_concurrency, m_collected, m_snapshot, m_tasks, m_taken,
                   m_names, m_has, m_wips, m_res_map, m_results, m_exit>>
    /\ MainFrame

\* bruteforce.py 30-33: the wordlist is missing, the stream ends at once
MainWordlistMissing ==
    /\ m_pc = "brute"
    /\ m_log' = m_log \o << [phase |-> "wordlist", ok |-> FALSE],
                            [phase |-> "brute", ok |-> TRUE] >>
    /\ m_pc' = "dedupe"
    /\ UNCHANGED <<m_concurrency, m_collected, m_snapshot, m_tasks, m_taken,
                   m_names, m_has, m_wips, m_res_map, m_results, m_exit>>
    /\ MainFrame

\* bruteforce.py 35-39: the snapshot of the skip set, then the pool; the
\* pool's constructor raises for max_workers <= 0 and main logs it
MainBruteOpen ==
    /\ m_pc = "brute"
    /\ m_snapshot' = m_collected
    /\ IF m_concurrency > 0
       THEN /\ m_pc' = "stream"
            /\ UNCHANGED m_log
       ELSE /\ m_pc' = AfterExcept("brute")
            /\ m_log' = Append(m_log, [phase |-> "brute", ok |-> FALSE])
    /\ UNCHANGED <<m_concurrency, m_collected, m_tasks, m_taken, m_names,
                   m_has, m_wips, m_res_map, m_results, m_exit>>
    /\ MainFrame

\* bruteforce.py 42-54: a candidate outside the snapshot is submitted
MainBruteSubmit(n) ==
    /\ m_pc = "stream"
    /\ Len(m_tasks) < MaxTasks
    /\ ~InSkip(n, m_snapshot)
    /\ m_tasks' = Append(m_tasks, Task(n))
    /\ UNCHANGED <<m_pc, m_concurrency, m_collected, m_snapshot, m_taken,
                   m_names, m_has, m_wips, m_res_map, m_results, m_log,
                   m_exit>>
    /\ MainFrame

\* bruteforce.py 58-66, 74-80 and cli.py 105-107: a finished task is taken;
\* its name is yielded if it resolved, and main adds it to collected
MainBruteTake(i) ==
    /\ m_pc = "stream"
    /\ i \in DOMAIN m_tasks
    /\ i \notin m_taken
    /\ Done(m_tasks[i])
    /\ m_taken' = m_taken \cup {i}
    /\ m_collected' = IF ResultOrEmpty(m_tasks[i]) # <<>>
                      THEN m_collected \cup {m_tasks[i].cand}
                      ELSE m_collected
    /\ UNCHANGED <<m_pc, m_concurrency, m_snapshot, m_tasks, m_names, m_has,
                   m_wips, m_res_map, m_results, m_log, m_exit>>
    /\ MainFrame

\* bruteforce.py 74-80: the wordlist is read and every task is drained
MainBruteEnd ==
    /\ m_pc = "stream"
    /\ m_taken = DOMAIN m_tasks
    /\ m_log' = Append(m_log, [phase |-> "brute", ok |-> TRUE])
    /\ m_pc' = "dedupe"
    /\ UNCHANGED <<m_concurrency, m_collected, m_snapshot, m_tasks, m_taken,
                   m_names, m_has, m_wips, m_res_map, m_results, m_exit>>
    /\ MainFrame

\* bruteforce.py 39-80: an exception inside the with block (reading the
\* file, say) starts to leave the block
MainBruteRaises ==
    /\ m_pc = "stream"
    /\ m_pc' = "unwind"
    /\ UNCHANGED <<m_concurrency, m_collected, m_snapshot, m_tasks, m_taken,
                   m_names, m_has, m_wips, m_res_map, m_results, m_log,
                   m_exit>>
    /\ MainFrame

\* bruteforce.py 39 and cli.py 110-112: the pool has been shut down, the
\* exception reaches main, which logs it
MainBruteFailed ==
    /\ m_pc = "unwind"
    /\ PoolDrained(m_tasks)
    /\ m_log' = Append(m_log, [phase |-> "brute", ok |-> FALSE])
    /\ m_pc' = AfterExcept("brute")
    /\ UNCHANGED <<m_concurrency, m_collected, m_snapshot, m_tasks, m_taken,
                   m_names, m_has, m_wips, m_res_map, m_results, m_exit>>
    /\ MainFrame

\* a worker of the pool (bruteforce.py 39, resolver.py 109) picks the
\* oldest queued task
MainWorkerStart(i) ==
    /\ CanStart(m_tasks, m_concurrency, i)
    /\ m_tasks' = Started(m_tasks, i)
    /\ UNCHANGED <<m_pc, m_concurrency, m_collected, m_snapshot, m_taken,
                   m_names, m_has, m_wips, m_res_map, m_results, m_log,
                   m_exit>>
    /\ MainFrame

\* resolve_name_any returns or raises in a worker of the pool
MainWorkerFinish(i, o) ==
    /\ i \in Running(m_tasks)
    /\ m_tasks' = Finished(m_tasks, i, o)
    /\ UNCHANGED <<m_pc, m_concurrency, m_collected, m_snapshot, m_taken,
                   m_names, m_has, m_wips, m_res_map, m_results, m_log,
                   m_exit>>
    /\ MainFrame

\* cli.py 115: names = sorted(list(utils.dedupe(collected)))
MainDedupe ==
    /\ m_pc = "dedupe"
    /\ m_names' = SortedNames(m_collected)
    /\ m_pc' = "wildcard"
    /\ UNCHANGED <<m_concurrency, m_collected, m_snapshot, m_tasks, m_taken,
                   m_has, m_wips, m_res_map, m_results, m_log, m_exit>>
    /\ MainFrame

\* cli.py 119-121: detect_wildcard(domain, tries=2, ...) returned; ips_sets
\* holds the results of its probes
MainWildcard(ips_sets) ==
    /\ m_pc = "wildcard"
    /\ m_has' = HasAny(ips_sets)
    /\ m_wips' = Combined(ips_sets)
    /\ m_log' = Append(m_log, [phase |-> "wildcard", ok |-> TRUE])
    /\ m_pc' = "bulk"
    /\ UNCHANGED <<m_concurrency, m_collected, m_snapshot, m_tasks, m_taken,
                   m_names, m_res_map, m_results, m_exit>>
    /\ MainFrame

\* cli.py 122-125: detect_wildcard raised
MainWildcardFails ==
    /\ m_pc = "wildcard"
    /\ m_wips' = {}
    /\ m_has' = FALSE
    /\ m_log' = Append(m_log, [phase |-> "wildcard", ok |-> FALSE])
    /\ m_pc' = AfterExcept("wildcard")
    /\ UNCHANGED <<m_concurrency, m_collected, m_snapshot, m_tasks, m_taken,
                   m_names, m_res_map, m_results, m_exit>>
    /\ MainFrame

\* cli.py 128-131 and resolver.py 108-110: results = []; nothing is
\* resolved when names is empty; otherwise bulk_resolve creates its pool,
\* whose constructor raises for max_workers <= 0, and submits one task per
\* name
MainBulkSubmit ==
    /\ m_pc = "bulk"
    /\ m_results' = <<>>
    /\ IF m_names = <<>>
       THEN /\ m_pc' = "output"
            /\ UNCHANGED <<m_tasks, m_taken, m_log>>
       ELSE IF m_concurrency > 0
       THEN /\ m_tasks' = [i \in DOMAIN m_names |-> Task(m_names[i])]
            /\ m_taken' = {}
            /\ m_pc' = "collect"
            /\ UNCHANGED m_log
       ELSE /\ m_pc' = AfterExcept("bulk")
            /\ m_log' = Append(m_log, [phase |-> "bulk", ok |-> FALSE])
            /\ UNCHANGED <<m_tasks, m_taken>>
    /\ UNCHANGED <<m_concurrency, m_collected, m_snapshot, m_names, m_has,
                   m_wips, m_res_map, m_exit>>
    /\ MainFrame

\* resolver.py 111-118: a completed future's result is stored under its name
MainBulkTake(i) ==
    /\ m_pc = "collect"
    /\ i \in DOMAIN m_tasks
    /\ i \notin m_taken
    /\ Done(m_tasks[i])
    /\ m_taken' = m_taken \cup {i}
    /\ m_res_map' = Append(m_res_map, [name |-> m_tasks[i].cand,
                                       ips |-> BulkResult(m_tasks[i])])
    /\ UNCHANGED <<m_pc, m_concurrency, m_collected, m_snapshot, m_tasks,
                   m_names, m_has, m_wips, m_results, m_log, m_exit>>
    /\ MainFrame

\* resolver.py 119 and cli.py 132-141: bulk_resolve returns and main keeps
\* the entries that resolved and are not wildcard hits
MainBulkReturn ==
    /\ m_pc = "collect"
    /\ m_taken = DOMAIN m_tasks
    /\ m_results' = SelectSeq(m_res_map,
                       LAMBDA e : /\ e.ips # <<>>
                                  /\ ~WildcardHit(m_has, m_wips, e.ips))
    /\ m_log' = Append(m_log, [phase |-> "bulk", ok |-> TRUE])
    /\ m_pc' = "output"
    /\ UNCHANGED <<m_concurrency, m_collected, m_snapshot, m_tasks, m_taken,
                   m_names, m_has, m_wips, m_res_map, m_exit>>
    /\ MainFrame

\* cli.py 147-155: the output step.  safe_path rejects the path and nothing
\* is written ("path"), or write_output is called and raises ("failed") or
\* writes the file ("written"); main calls sys.exit(1) on either failure
MainOutput(outcome) ==
    /\ m_pc = "output"
    /\ m_log' = Append(m_log,
                       IF outcome = "path"
                       THEN [phase |-> "path", ok |-> FALSE]
                       ELSE [phase |-> "write", ok |-> (outcome = "written")])
    /\ m_exit' = IF outcome = "written" THEN "0" ELSE "1"
    /\ m_pc' = "exit"
    /\ UNCHANGED <<m_concurrency, m_collected, m_snapshot, m_tasks, m_taken,
                   m_names, m_has, m_wips, m_res_map, m_results>>
    /\ MainFrame

(***************************************************************************)
(* The nameservers of a resolver (core/resolver.py 17-37): the module      *)
(* global set by set_nameservers and the choice made by _get_resolver.     *)
(***************************************************************************)
\* Optional[List[str]]: None, or a list (possibly empty)
None == [none |-> TRUE, list |-> <<>>]

Some(l) == [none |-> FALSE, list |-> l]

ServerLists == {<<>>} \cup {<<a>> : a \in {"8", "9"}}
               \cup {<<a, b>> : a \in {"8", "9"}, b \in {"8", "9"}}

NameserverArgs == {None} \cup {Some(l) : l \in ServerLists}

\* Python truthiness of an Optional[List[str]]
Truthy(ns) == ~ns.none /\ ns.list # <<>>

\* g_nameservers is the list assigned to r.nameservers, None while the
\* resolver keeps the nameservers of the system configuration
NsIdle ==
    /\ g_pc = "idle" /\ GLOBAL_NAMESERVERS = None /\ g_arg = None
    /\ g_override = None /\ g_nameservers = None

\* resolver.py 20-27
set_nameservers(nameservers) ==
    /\ g_pc \in {"loaded", "called"}
    /\ GLOBAL_NAMESERVERS' = IF Truthy(nameservers)
                             THEN Some(nameservers.list)
                             ELSE None
    /\ UNCHANGED <<g_pc, g_arg, g_override, g_nameservers>>
    /\ NsFrame

\* resolver.py 34-36: ns = nameservers if nameservers is not None else
\* _GLOBAL_NAMESERVERS; if ns: r.nameservers = ns
ChosenNameservers(nameservers, override) ==
    LET ns == IF ~nameservers.none THEN nameservers ELSE override
    IN  IF Truthy(ns) THEN Some(ns.list) ELSE None

\* resolver.py 29-37: a resolver is built for one call; g_arg and
\* g_override record the argument and the override of that call
get_resolver(nameservers) ==
    /\ g_pc \in {"loaded", "called"}
    /\ g_nameservers' = ChosenNameservers(nameservers, GLOBAL_NAMESERVERS)
    /\ g_arg' = nameservers
    /\ g_override' = GLOBAL_NAMESERVERS
    /\ g_pc' = "called"
    /\ UNCHANGED GLOBAL_NAMESERVERS
    /\ NsFrame

(***************************************************************************)
(* Specifications: one per component.                                      *)
(***************************************************************************)
InitNorm ==
    /\ InitNormalize /\ DedupeIdle /\ BruteIdle /\ BulkIdle /\ ResolveIdle
    /\ FilterIdle
    /\ CollectIdle
    /\ MainIdle
    /\ NsIdle

NextNorm ==
    \/ NormalizeOnce
    \/ NormalizeTwice

SpecNormalize == InitNorm /\ [][NextNorm]_vars

InitDed ==
    /\ NormIdle /\ InitDedupe /\ BruteIdle /\ BulkIdle /\ ResolveIdle
    /\ FilterIdle
    /\ CollectIdle
    /\ MainIdle
    /\ NsIdle

NextDed ==
    \/ \E item \in StringsUpTo(MaxStrLen) : dedupe(item)
    \/ DedupeEnd

SpecDedupe == InitDed /\ [][NextDed]_vars

InitBr ==
    /\ NormIdle /\ DedupeIdle /\ InitBrute /\ BulkIdle /\ ResolveIdle
    /\ FilterIdle
    /\ CollectIdle
    /\ MainIdle
    /\ NsIdle

NextBr ==
    \/ BruteBegin
    \/ \E raw \in WordLines : BruteReadLine(raw)
    \/ BruteScanStep
    \/ BruteEndOfFile
    \/ BruteDrainStep
    \/ \E i \in DOMAIN futures : BruteWorkerStart(i)
    \/ \E i \in DOMAIN futures : \E o \in Outcomes({"1"}) : BruteWorkerFinish(i, o)

SpecBrute == InitBr /\ [][NextBr]_vars

InitBk ==
    /\ NormIdle /\ DedupeIdle /\ BruteIdle /\ InitBulk /\ ResolveIdle
    /\ FilterIdle
    /\ CollectIdle
    /\ MainIdle
    /\ NsIdle

NextBk ==
    \/ BulkSubmit
    \/ \E i \in DOMAIN k_futures : BulkCollect(i)
    \/ BulkReturn
    \/ \E i \in DOMAIN k_futures : BulkWorkerStart(i)
    \/ \E i \in DOMAIN k_futures : \E o \in Outcomes({"1", "2"}) : BulkWorkerFinish(i, o)

SpecBulk == InitBk /\ [][NextBk]_vars

InitRes ==
    /\ NormIdle /\ DedupeIdle /\ BruteIdle /\ BulkIdle /\ InitResolve
    /\ FilterIdle
    /\ CollectIdle
    /\ MainIdle
    /\ NsIdle

NextRes ==
    \/ ResolveA
    \/ ResolveAAAA
    \/ CnameEnter
    \/ CnameNext
    \/ CnameTargetA
    \/ CnameTargetAAAA
    \/ ResolveDedupe

SpecResolve == InitRes /\ [][NextRes]_vars

InitFil ==
    /\ NormIdle /\ DedupeIdle /\ BruteIdle /\ BulkIdle /\ ResolveIdle
    /\ InitFilter
    /\ CollectIdle
    /\ MainIdle
    /\ NsIdle

NextFil ==
    \/ \E ips \in AddressLists : DetectProbe(ips)
    \/ DetectReturn
    \/ DetectFailed
    \/ \E items \in ResolvedItems : FilterResolved(items)
    \/ FilterStep

SpecFilter == InitFil /\ [][NextFil]_vars

InitCol ==
    /\ NormIdle /\ DedupeIdle /\ BruteIdle /\ BulkIdle /\ ResolveIdle
    /\ FilterIdle /\ MainIdle /\ NsIdle
    /\ c_pc = "loop"
    /\ c_domain = <<"d">>
    /\ attempt = 1
    /\ last_exc = FALSE
    /\ c_trace = <<>>
    /\ data = <<>>
    /\ c_pos = 0
    /\ hosts = <<>>
    /\ c_ret = <<>>

NextCol ==
    \/ \E kind \in {"network", "status", "json"} : CollectAttemptFails(kind)
    \/ CollectNonList
    \/ \E body \in Bodies : CollectFetched(body)
    \/ CollectItem
    \/ CollectReturn

SpecCollect == InitCol /\ [][NextCol]_vars

\* cli.py 58-59: the arguments are parsed; --concurrency is any integer
InitMn ==
    /\ NormIdle /\ DedupeIdle /\ BruteIdle /\ BulkIdle /\ ResolveIdle
    /\ FilterIdle /\ CollectIdle /\ NsIdle
    /\ m_pc = "start"
    /\ m_concurrency \in 0..2
    /\ m_collected = {}
    /\ m_snapshot = {}
    /\ m_tasks = <<>>
    /\ m_taken = {}
    /\ m_names = <<>>
    /\ m_has = FALSE
    /\ m_wips = {}
    /\ m_res_map = <<>>
    /\ m_results = <<>>
    /\ m_log = <<>>
    /\ m_exit = "none"

NextMn ==
    \/ \E why \in {"domain", "download"} : MainFatalConfig(why)
    \/ MainConfigured
    \/ \E found \in SUBSET HostIds : MainPassive(found)
    \/ MainPassiveFails
    \/ MainWordlistMissing
    \/ MainBruteOpen
    \/ \E n \in HostIds : MainBruteSubmit(n)
    \/ \E i \in DOMAIN m_tasks : MainBruteTake(i)
    \/ MainBruteEnd
    \/ MainBruteRaises
    \/ MainBruteFailed
    \/ \E i \in DOMAIN m_tasks : MainWorkerStart(i)
    \/ \E i \in DOMAIN m_tasks : \E o \in Outcomes({"1"}) : MainWorkerFinish(i, o)
    \/ MainDedupe
    \/ \E s \in [1..WildcardTries -> {{}, {"1"}}] : MainWildcard(s)
    \/ MainWildcardFails
    \/ MainBulkSubmit
    \/ \E i \in DOMAIN m_tasks : MainBulkTake(i)
    \/ MainBulkReturn
    \/ \E outcome \in {"path", "failed", "written"} : MainOutput(outcome)

SpecMain == InitMn /\ [][NextMn]_vars

\* resolver.py 18: _GLOBAL_NAMESERVERS = None
InitNms ==
    /\ NormIdle /\ DedupeIdle /\ BruteIdle /\ BulkIdle /\ ResolveIdle
    /\ FilterIdle /\ CollectIdle /\ MainIdle
    /\ g_pc = "loaded"
    /\ GLOBAL_NAMESERVERS = None
    /\ g_arg = None
    /\ g_override = None
    /\ g_nameservers = None

NextNms ==
    \/ \E nameservers \in NameserverArgs : set_nameservers(nameservers)
    \/ \E nameservers \in NameserverArgs : get_resolver(nameservers)

SpecNameservers == InitNms /\ [][NextNms]_vars

\* resolver.py 121-128: detect_wildcard called with any number of tries
InitDet ==
    /\ NormIdle /\ DedupeIdle /\ BruteIdle /\ BulkIdle /\ ResolveIdle
    /\ CollectIdle /\ MainIdle /\ NsIdle
    /\ f_pc = "detect"
    /\ tries \in 0..MaxTries
    /\ probes = <<>>
    /\ has_wildcard = FALSE
    /\ wildcard_ips = {}
    /\ res_map = <<>>
    /\ f_pos = 0
    /\ f_results = <<>>

NextDet ==
    \/ \E ips \in AddressLists : DetectProbe(ips)
    \/ DetectReturn

SpecDetect == InitDet /\ [][NextDet]_vars

(***************************************************************************)
(* Properties of bruteforce_stream, checked under SpecBrute.               *)
(***************************************************************************)
Unfinished ==
    {k \in DOMAIN pending_futures : ~Done(futures[pending_futures[k]])}

YieldsOf(i) == {k \in DOMAIN yielded : yielded[k].task = i}

Succeeded(f) == Done(f) /\ ~f.raised /\ f.recs # <<>>

\* C1: the number of unfinished tasks held in pending_futures never exceeds
\* max_pending.
C1_PendingBounded ==
    Cardinality(Unfinished) <= max_pending

\* C2: no submitted task is consumed or yielded twice; when the stream has
\* ended every submitted task has completed and had its result taken exactly
\* once, a task whose resolution returned a record has had its canonical
\* name yielded exactly once, and a task without a record was not yielded.
C2_EachSuccessYieldedOnce ==
    \A i \in DOMAIN futures :
        /\ futures[i].taken <= 1
        /\ Cardinality(YieldsOf(i)) <= 1
        /\ futures[i].taken = 1 => Done(futures[i])
        /\ b_pc = "done" =>
              /\ Done(futures[i])
              /\ futures[i].taken = 1
              /\ Succeeded(futures[i]) =>
                    \E k \in YieldsOf(i) :
                        yielded[k].name = normalize(futures[i].cand)
              /\ ~Succeeded(futures[i]) => YieldsOf(i) = {}

\* the stream ended after a threshold scan yielded task 2 and retained the
\* unfinished task 1, which the final drain then yielded
C2_Witness ==
    /\ b_pc = "done"
    /\ Len(futures) = 2
    /\ Len(yielded) = 2
    /\ yielded[1].task = 2
    /\ yielded[2].task = 1

\* C3: no resolution task is ever submitted for a candidate whose canonical
\* form is in skip_set; when every candidate of the wordlist has its
\* canonical form in skip_set, nothing is submitted and nothing is yielded.
C3_SkipSetNeverSubmitted ==
    /\ \A i \in DOMAIN futures : normalize(futures[i].cand) \notin skip_set
    /\ (\A k \in DOMAIN formed : normalize(formed[k]) \in skip_set) =>
          futures = <<>> /\ yielded = <<>>

\* the stream ended over a wordlist of two candidates, both in skip_set
C3_Witness ==
    /\ b_pc = "done"
    /\ Len(formed) = 2
    /\ \A k \in DOMAIN formed : normalize(formed[k]) \in skip_set
    /\ futures = <<>>
    /\ yielded = <<>>

\* C10: every yielded hostname is the canonical form of word.domain for a
\* wordlist line that is neither blank nor a comment, and its resolution
\* task returned at least one record (it neither raised nor came back empty).
C10_YieldedOnlyResolved ==
    \A k \in DOMAIN yielded :
        LET f == futures[yielded[k].task] IN
        /\ f.raw # <<>>
        /\ Strip(f.raw) # <<>>
        /\ Head(f.raw) # "#"
        /\ yielded[k].name = normalize(Strip(f.raw) \o <<".">> \o domain)
        /\ Done(f) /\ ~f.raised /\ f.recs # <<>>

\* the stream ended having yielded one hostname while another candidate's
\* task raised and a comment line was read
C10_Witness ==
    /\ b_pc = "done"
    /\ Len(yielded) = 1
    /\ Len(futures) = 2
    /\ Len(formed) = 2
    /\ processed = 3
    /\ \E i \in DOMAIN futures : futures[i].raised

(***************************************************************************)
(* Properties of bulk_resolve, checked under SpecBulk.                     *)
(***************************************************************************)
Occurrences(n) == {i \in DOMAIN names : names[i] = n}

OwnResult(i) == IF k_futures[i].raised THEN <<>> ELSE k_futures[i].recs

\* C4 as stated: over a list of N names the returned mapping has exactly N
\* entries.
C4_ExactlyNEntries ==
    k_pc = "done" => Cardinality(DOMAIN results) = Len(names)

\* C4 as amended: the returned mapping has exactly one entry per distinct
\* input name, so N entries when the N names are pairwise distinct, whether
\* or not lookups fail and in whatever order the tasks complete.
C4_OneEntryPerDistinctName ==
    k_pc = "done" =>
        /\ DOMAIN results = Range(names)
        /\ (\A n \in Range(names) : Cardinality(Occurrences(n)) = 1) =>
              Cardinality(DOMAIN results) = Len(names)

\* two distinct names were resolved, one lookup raised, two entries returned
C4_Witness ==
    /\ k_pc = "done"
    /\ Len(names) = 2
    /\ names[1] # names[2]
    /\ k_futures[1].raised
    /\ ~k_futures[2].raised
    /\ Cardinality(DOMAIN results) = 2

\* C5 as stated: every task runs to completion, a name whose task raised is
\* mapped to the empty result and every other name to the result its own
\* task returned.
C5_FailureIsolated ==
    k_pc = "done" =>
        \A i \in DOMAIN names :
            /\ Done(k_futures[i])
            /\ names[i] \in DOMAIN results
            /\ results[names[i]] = OwnResult(i)

\* C5 as amended: the same, for every name that occurs once in the list.
C5_FailureIsolatedPerUniqueName ==
    k_pc = "done" =>
        \A i \in DOMAIN names :
            /\ Done(k_futures[i])
            /\ names[i] \in DOMAIN results
            /\ Cardinality(Occurrences(names[i])) = 1 =>
                  results[names[i]] = OwnResult(i)

\* the task of the first name raised and was taken first; the second name
\* kept the records of its own task
C5_Witness ==
    /\ k_pc = "done"
    /\ names = <<"p", "q">>
    /\ k_futures[1].raised
    /\ k_futures[2].recs = <<"2">>
    /\ results["p"] = <<>>
    /\ results["q"] = <<"2">>

(***************************************************************************)
(* Properties of normalize and dedupe, checked under SpecNormalize and     *)
(* SpecDedupe.                                                             *)
(***************************************************************************)
\* C7: normalize is idempotent: normalize(normalize(x)) = normalize(x).
C7_NormalizeIdempotent ==
    n_pc = "twice" => n_twice = n_once

\* the non-empty normalized values of a sequence, each at its first place
RECURSIVE FirstSeen(_, _)
FirstSeen(s, acc) ==
    IF s = <<>> THEN acc
    ELSE LET n == normalize(Head(s)) IN
         FirstSeen(Tail(s),
                   IF n = <<>> \/ n \in Range(acc) THEN acc ELSE Append(acc, n))

\* C8: dedupe yields each distinct non-empty normalized value of its input
\* exactly once, in order of first occurrence; it never yields an empty
\* string and never yields two values whose canonical forms are equal.
C8_DedupeDistinctCanonical ==
    /\ d_out = FirstSeen(d_input, <<>>)
    /\ \A k \in DOMAIN d_out : d_out[k] # <<>>
    /\ \A j, k \in DOMAIN d_out :
          j # k => normalize(d_out[j]) # normalize(d_out[k])

(***************************************************************************)
(* Properties of resolve_name_any, checked under SpecResolve.              *)
(***************************************************************************)
\* the names at most k CNAME hops from Name in the zone
RECURSIVE WithinHops(_)
WithinHops(k) ==
    IF k = 0 THEN {Name}
    ELSE LET near == WithinHops(k - 1) IN
         near \cup UNION {Range(zone[n]) : n \in near}

EntriesOf(n) == {n, <<"4">> \o n, <<"6">> \o n}

\* the most steps a resolution can take: the two lookups of the name, the
\* final deduplication, and for the first call of resolve_cname and each
\* host name recorded as a target, one frame of at most four steps (the
\* depth test and lookup, two targets, the loop's end) and two lookups
StepBound == 3 + 4 * (Cardinality(HostNames) + 1) + 2 * Cardinality(HostNames)

\* C6: resolve terminates for every record graph (cycles, also through the
\* original name, branching chains, chains longer than max_depth): it is
\* never stuck before it returns and returns within StepBound steps; no
\* CNAME query is issued at hop depth >= max_depth and every returned entry
\* lies at most max_depth CNAME hops from the name.
C6_ResolveTerminates ==
    /\ r_steps <= StepBound
    /\ r_pc # "done" => ENABLED NextRes
    /\ \A q \in cname_queries : q.depth < max_depth
    /\ \A i \in DOMAIN stack : stack[i].depth <= max_depth
    /\ \A i \in DOMAIN r_results :
          \E n \in WithinHops(max_depth) : r_results[i] \in EntriesOf(n)
    /\ r_pc = "done" =>
          /\ Range(deduped) = Range(r_results)
          /\ NoRepeat(deduped)

\* a resolution returned over a zone whose chain cycles through the
\* original name and is cut by the depth limit: x -> y -> x -> ...
C6_Witness ==
    /\ r_pc = "done"
    /\ max_depth = 2
    /\ zone[<<"x">>] = << <<"y">> >>
    /\ zone[<<"y">>] = << <<"x">>, <<"z">> >>
    /\ zone[<<"z">>] # <<>>
    /\ <<"x">> \in Range(deduped)
    /\ <<"z">> \in Range(deduped)
    /\ Cardinality(cname_queries) = 2

(***************************************************************************)
(* Properties of the final filtering step, checked under SpecFilter.       *)
(***************************************************************************)
Kept(item) == \E k \in DOMAIN f_results : f_results[k] = item

\* C9: a candidate with a non-empty result is dropped if and only if
\* has_wildcard is true and every one of its entries is in wildcard_ips;
\* otherwise it is kept in the results with its full result list.
C9_WildcardSubsetFilter ==
    f_pc = "done" =>
        \A i \in DOMAIN res_map :
            res_map[i].ips # <<>> =>
                (~Kept(res_map[i]) <=>
                    (has_wildcard /\
                     \A a \in Range(res_map[i].ips) : a \in wildcard_ips))

\* with wildcard address 1, the candidate resolving to [1] was dropped and
\* the candidate resolving to [1, 2] was kept
C9_Witness ==
    /\ f_pc = "done"
    /\ has_wildcard
    /\ wildcard_ips = {"1"}
    /\ res_map = << [name |-> "p", ips |-> <<"1">>],
                    [name |-> "q", ips |-> <<"1", "2">>] >>
    /\ f_results = << [name |-> "q", ips |-> <<"1", "2">>] >>

(***************************************************************************)
(* Properties of crt_sh_collect, checked under SpecCollect.                *)
(***************************************************************************)
Requests == {i \in DOMAIN c_trace : c_trace[i].ev = "request"}

FailedRequests == {i \in Requests : ~c_trace[i].ok}

\* C11: a call issues at most RETRY_ATTEMPTS requests; every request but the
\* first comes right after a backoff sleep that follows a failed request;
\* nothing follows a successful request; and when every attempt has failed
\* the call returns the empty list and raises nothing.
C11_RetryDiscipline ==
    /\ Cardinality(Requests) <= RETRY_ATTEMPTS
    /\ \A i \in Requests :
          i > 1 => /\ i > 2
                   /\ c_trace[i - 1].ev = "sleep"
                   /\ c_trace[i - 1].wait > 0
                   /\ (i - 2) \in FailedRequests
    /\ \A i \in Requests : c_trace[i].ok => i = Len(c_trace)
    /\ Cardinality(FailedRequests) = RETRY_ATTEMPTS =>
          last_exc /\ c_pc = "returned" /\ c_ret = <<>>

\* every attempt failed and the call has returned
C11_Witness ==
    /\ c_pc = "returned"
    /\ Cardinality(FailedRequests) = RETRY_ATTEMPTS
    /\ Cardinality({i \in DOMAIN c_trace : c_trace[i].ev = "sleep"}) = 2

(***************************************************************************)
(* Malformed responses and the filter on the lines of name_value           *)
(* (SpecCollect).                                                          *)
(***************************************************************************)
\* C17: a fetched body that is malformed (an array with elements that are
\* not objects, or objects without a string name_value) never makes
\* crt_sh_collect raise.
C17_MalformedNeverRaises == c_pc # "raised"

\* the candidate of a trimmed line as C19 states it: one leading
\* wildcard marker "*." removed, then the trailing dot
MarkerStripped(line) ==
    IF Len(line) >= 2 /\ line[1] = "*" /\ line[2] = "."
    THEN SubSeq(line, 3, Len(line))
    ELSE line

StatedCandidate(raw) == DropTrailingDot(MarkerStripped(Strip(raw)))

StatedKept(raw, dom) ==
    /\ Strip(raw) # <<>>
    /\ "@" \notin Range(Strip(raw))
    /\ EndsWith(StatedCandidate(raw), dom)
    /\ is_likely_subdomain(StatedCandidate(raw))

\* the response is one object whose name_value is one line
OneLine == Len(data) = 1 /\ data[1].kind = "obj" /\ Len(data[1].nv) = 1

\* C19: a line of name_value yields a hostname exactly when, trimmed, it is
\* not empty, has no "@", and its candidate (one leading "*." and the
\* trailing dot removed) ends with the domain and has only hostname
\* characters; the hostname is the candidate in canonical form; and the
\* returned list has no duplicates.
C19_LineFilter ==
    c_pc = "returned" =>
        /\ NoRepeat(c_ret)
        /\ OneLine =>
              c_ret = IF StatedKept(data[1].nv[1], c_domain)
                      THEN << normalize(StatedCandidate(data[1].nv[1])) >>
                      ELSE <<>>

\* C20: every returned hostname is the domain or ends with "." + domain.
C20_OnlySubdomains ==
    c_pc = "returned" =>
        \A i \in DOMAIN c_ret :
            c_ret[i] = c_domain \/ EndsWith(c_ret[i], <<".">> \o c_domain)

(***************************************************************************)
(* Escalation of a resolver-construction failure (SpecBulk).  The only     *)
(* call of resolve_name_any outside a try block is _get_resolver (line     *)
(* 57), so a task that raised is a task whose resolver could not be built. *)
(***************************************************************************)
\* C12: a resolver-construction failure inside a resolution task surfaces
\* to the caller: bulk_resolve does not return normally when a task raised.
C12_ConstructionFailureSurfaces ==
    k_pc = "done" => \A i \in DOMAIN k_futures : ~k_futures[i].raised

(***************************************************************************)
(* Properties of a run of main, checked under SpecMain.                    *)
(***************************************************************************)
Logged(phase) == {i \in DOMAIN m_log : m_log[i].phase = phase}

\* C13: write_output is called at most once in a run, and only after the
\* bruteforce stream has ended (normally or by an exception), wildcard
\* detection has returned or failed, and every task of the bruteforce pool
\* and of the bulk_resolve pool has completed; nothing is written while a
\* resolution task is in flight.
C13_WriteOnceAfterResolution ==
    /\ Cardinality(Logged("write")) <= 1
    /\ m_pc \in {"dedupe", "wildcard", "bulk", "output", "exit"} =>
          \A k \in DOMAIN m_tasks : Done(m_tasks[k])
    /\ \A i \in Logged("write") :
          /\ i = Len(m_log)
          /\ m_pc = "exit"
          /\ \E j \in Logged("brute") : j < i
          /\ \E j \in Logged("wildcard") : j < i
          /\ m_names # <<>> => \E j \in Logged("bulk") : j < i
          /\ (\E j \in Logged("bulk") : m_log[j].ok) =>
                m_taken = DOMAIN m_tasks /\ Len(m_tasks) = Len(m_names)

\* the output was written in a run whose stream broke off after a name had
\* been found by a bruteforce task, and whose bulk resolution ran tasks
C13_Witness ==
    /\ Logged("write") # {}
    /\ \E j \in Logged("brute") : ~m_log[j].ok
    /\ m_collected # m_snapshot
    /\ \E j \in Logged("bulk") : m_log[j].ok
    /\ m_tasks # <<>>

\* C14: with a valid domain (and no failed wordlist download) no failure of
\* passive collection, of the wordlist, of the bruteforce stream, of
\* wildcard detection or of bulk resolution ends the run: the run goes on
\* to the output step, keeps the names found so far, and a failed phase
\* contributes nothing.
C14_DegradeNotAbort ==
    /\ m_pc = "exit" =>
          \/ \E i \in Logged("domain") \cup Logged("download") : ~m_log[i].ok
          \/ Logged("write") \cup Logged("path") # {}
    /\ m_pc # "exit" => ENABLED NextMn
    /\ m_pc \in {"stream", "unwind"} =>
          \A k \in m_taken : ResultOrEmpty(m_tasks[k]) # <<>> =>
                                  m_tasks[k].cand \in m_collected
    /\ m_snapshot \subseteq m_collected
    /\ m_pc \in {"wildcard", "bulk", "collect", "output"} =>
          Range(m_names) = m_collected
    /\ Logged("write") \cup Logged("path") # {} =>
          Range(m_names) = m_collected
    /\ (\E i \in Logged("wildcard") : ~m_log[i].ok) => ~m_has /\ m_wips = {}
    /\ (\E i \in Logged("bulk") : ~m_log[i].ok) => m_results = <<>>

\* passive collection, the stream and wildcard detection all failed, a name
\* found before the stream broke off was kept and resolved, and the output
\* was written
C14_Witness ==
    /\ m_exit = "0"
    /\ \E i \in Logged("passive") : ~m_log[i].ok
    /\ \E i \in Logged("brute") : ~m_log[i].ok
    /\ \E i \in Logged("wildcard") : ~m_log[i].ok
    /\ m_names # <<>>
    /\ m_results # <<>>

(***************************************************************************)
(* Properties of the nameserver choice, checked under SpecNameservers.     *)
(***************************************************************************)
\* a level is given when its list is present and not empty
Given(ns) == ~ns.none /\ ns.list # <<>>

\* C15: a resolver uses the per-call list when one is given, otherwise the
\* override when one is set, otherwise the system default, where an empty
\* or absent list counts as not given.
C15_Precedence ==
    g_pc = "called" =>
        g_nameservers = IF Given(g_arg) THEN Some(g_arg.list)
                        ELSE IF Given(g_override) THEN Some(g_override.list)
                        ELSE None

(***************************************************************************)
(* Properties of detect_wildcard, checked under SpecDetect.                *)
(***************************************************************************)
\* C16: detect_wildcard returns after exactly `tries` probes; has_wildcard
\* is true exactly when some probe's result is non-empty, wildcard_ips is
\* the union of the probes' results, and so has_wildcard is true exactly
\* when wildcard_ips is non-empty; with tries = 0 the result is
\* (false, empty set).
C16_WildcardVerdict ==
    f_pc = "resolve" =>
        /\ Len(probes) = tries
        /\ has_wildcard <=> (\E k \in 1..tries : probes[k] # {})
        /\ \A a \in Addresses :
              a \in wildcard_ips <=> (\E k \in 1..tries : a \in probes[k])
        /\ wildcard_ips \subseteq Addresses
        /\ has_wildcard <=> (wildcard_ips # {})
        /\ tries = 0 => ~has_wildcard /\ wildcard_ips = {}

\* three probes, an empty one among them, and a wildcard found
C16_Witness ==
    /\ f_pc = "resolve"
    /\ tries = 3
    /\ \E k \in 1..tries : probes[k] = {}
    /\ has_wildcard
    /\ wildcard_ips = Addresses

(***************************************************************************)
(* The skip set as a snapshot (SpecBrute).  skip_set is the content of the *)
(* caller's collection when the stream starts, collected its content now.  *)
(***************************************************************************)
NotInSnapshot(candidate) == normalize(candidate) \notin SkipNames(skip_set)

\* C18: the stream works on a snapshot of the skip set taken when it
\* starts: the snapshot never changes, the caller's collection changes only
\* by the yielded names the consumer adds to it, and the candidates
\* submitted are exactly those outside the snapshot, whatever the consumer
\* has added meanwhile.
C18_SkipSetSnapshot ==
    /\ skip_names \in {{}, SkipNames(skip_set)}
    /\ processed > 0 => skip_names = SkipNames(skip_set)
    /\ collected = skip_set \cup {yielded[k].name : k \in DOMAIN yielded}
    /\ [i \in DOMAIN futures |-> futures[i].cand]
          = SelectSeq(formed, NotInSnapshot)

\* the second task was submitted when nothing was pending, after the first
\* task's name had been yielded and added to collected, for a candidate
\* with that same canonical name
C18_Witness ==
    /\ b_pc = "scan"
    /\ scan_pos = 1
    /\ pending_futures = <<2>>
    /\ Len(yielded) = 1
    /\ yielded[1].task = 1
    /\ yielded[1].name = normalize(futures[2].cand)
    /\ yielded[1].name \in collected
    /\ yielded[1].name \notin skip_set

(***************************************************************************)
(* Repeated names in the stream (SpecBrute).  The wordlist is read line by *)
(* line: the same line may be read again, and the lines "a" and "A " form  *)
(* candidates with one canonical name.                                     *)
(***************************************************************************)
\* C21: within one run the stream yields no canonical hostname twice,
\* whatever the wordlist holds: no two positions of the yielded sequence
\* carry the same name.
C21_YieldedAtMostOnce ==
    \A j, k \in DOMAIN yielded :
        yielded[j].name = yielded[k].name => j = k

====
